---- MODULE Spec2Model ----
(***************************************************************************)
(* The RedisGraph example adapters of pytorch_geometric:                   *)
(*   - AttrView / RedisGraphTensorAttr (rg_pyg/torch_geometric_tensorattr) *)
(*     the chainable view that binds the fields of an attribute record;    *)
(*   - RedisGraphFeatureStore.__get_tensor_by_query                        *)
(*     (rg_pyg/torch_geometric_feature_store), which turns a record into a *)
(*     query string and sends it to the connection;                        *)
(*   - Connection (rg_pyg/connection, connection), the wrapper of the      *)
(*     redis client and of the module-level graph handle.                  *)
(* Python objects are heap cells: a view holds a REFERENCE to its record,  *)
(* so that sharing a record between two views is expressible.  Strings are *)
(* sequences of one-character strings, so that "%d" formatting and the     *)
(* slice [:-3] are computed character by character.                        *)
(***************************************************************************)
EXTENDS Integers, Sequences, FiniteSets, TLC

VARIABLES
    views,  \* slot -> the AttrView object held there (its __dict__), or NoView
    heap,   \* cell -> the RedisGraphTensorAttr object stored there, or Free
    last,   \* what the last operation was given, did to the store, and returned
    conns,  \* wrapper -> the Connection object held there (its __dict__), or NoConn
    graph,  \* the module-level name graph of connection.py
    opened, \* the redis.Redis(...) calls made so far, in order
    ran     \* the graph.query(...) calls made so far, in order

vvars == <<views, heap, last>>
cvars == <<conns, graph, opened, ran>>
vars == <<views, heap, last, conns, graph, opened, ran>>

----------------------------------------------------------------------------
(* Bounds *)

MaxViews == 2   \* view slots of the multi-view specification
MaxInt   == 2   \* integers 0..MaxInt occur in indices
Big      == 12  \* an integer of more than one digit that occurs in indices
MaxLen   == 2   \* longest explicit collection
MaxStep  == 3   \* largest stride of a range
MaxConns == 2   \* Connection wrappers constructed
MaxCalls == 3   \* execute calls made

----------------------------------------------------------------------------
(* Python values *)

UNSET == [t |-> "UNSET"]                 \* _field_status.UNSET
None  == [t |-> "None"]
Str(s)  == [t |-> "str", s |-> s]        \* s: sequence of characters
IntV(n) == [t |-> "int", n |-> n]
Slice(a, b, c) == [t |-> "slice", start |-> a, stop |-> b, step |-> c]
List(q) == [t |-> "list", items |-> q]   \* q: sequence of integers

Person == <<"P", "e", "r", "s", "o", "n">>
name   == <<"n", "a", "m", "e">>
oops   == <<"o", "o", "p", "s">>

\* The fields of the record, in declaration order (__dataclass_fields__).
Fields == <<"group_name", "attr_name", "index">>
FieldSet == {Fields[i] : i \in 1..Len(Fields)}

\* A record with every field at its class default.
RedisGraphTensorAttr == [group_name |-> UNSET, attr_name |-> UNSET, index |-> UNSET]

is_set(attr, key) == attr[key] /= UNSET

\* Variants of the definition below, each with one slip in it.
any_specified(attr) == \E key \in FieldSet : is_set(attr, key)
names_specified(attr) == is_set(attr, "group_name") /\ is_set(attr, "attr_name")

is_fully_specified(attr) == \A key \in FieldSet : is_set(attr, key)

\* Variant of the definition below: every field is overwritten.
specify_all(attr) == [key \in FieldSet |-> None]

fully_specify(attr) ==
    [key \in FieldSet |-> IF ~is_set(attr, key) THEN None ELSE attr[key]]

----------------------------------------------------------------------------
(* Strings *)

Digits == <<"0", "1", "2", "3", "4", "5", "6", "7", "8", "9">>

RECURSIVE FormatNat(_)
FormatNat(n) ==
    IF n < 10 THEN <<Digits[n + 1]>>
    ELSE FormatNat(n \div 10) \o <<Digits[(n % 10) + 1]>>

\* "%d" % n
FormatD(n) == IF n < 0 THEN <<"-">> \o FormatNat(0 - n) ELSE FormatNat(n)

\* "%s" % v
FormatS(v) ==
    CASE v.t = "str"  -> v.s
      [] v.t = "None" -> <<"N", "o", "n", "e">>
      [] v.t = "int"  -> FormatD(v.n)

MATCH_ITEM  == <<"M", "A", "T", "C", "H", " ", "(", "i", "t", "e", "m", ":">>
RETURN_ITEM == <<"R", "E", "T", "U", "R", "N", " ", "i", "t", "e", "m", ".">>
OFFSET == <<"o", "f", "f", "s", "e", "t", "(", "i", "d", "(", "i", "t", "e", "m", ")", ")">>
WHERE  == <<"W", "H", "E", "R", "E">>
AND_   == <<" ", "A", "N", "D", " ">>

\* s[:-k]
DropLast(s, k) == SubSeq(s, 1, Len(s) - k)

----------------------------------------------------------------------------
(* RedisGraphFeatureStore.__get_tensor_by_query: the query text.           *)
(* The names the method uses but the file never binds (Tensor, np,         *)
(* self.__get_connection, self.connection) are taken for what they name:   *)
(* the tensor and array types, and the connection wrapper.                 *)

Raise(exc, msg) == [raised |-> exc, text |-> msg]
Text(s) == [raised |-> "", text |-> s]

\* " offset(id(item)) = %d OR" appended for each member, in order (the for loop)
RECURSIVE OrTerms(_)
OrTerms(items) ==
    IF items = <<>> THEN <<>>
    ELSE <<" ">> \o OFFSET \o <<" ", "=", " ">> \o FormatD(Head(items))
             \o <<" ", "O", "R">> \o OrTerms(Tail(items))

\* Variant of the definition below: the trailing " OR" is left in place.
keep_or(where_clause) == where_clause

\* where_clause[:-3] after the loop
TrimOr(where_clause) == DropLast(where_clause, Len(<<" ", "O", "R">>))

\* "WHERE offset(id(item)) >= %d AND offset(id(item)) < %d" % (start, stop)
RangeText(start, stop) ==
    WHERE \o <<" ">> \o OFFSET \o <<" ", ">", "=", " ">> \o FormatD(start)
          \o AND_ \o OFFSET \o <<" ", "<", " ">> \o FormatD(stop)

\* "... AND (offset(id(item)) - %d) %% %d = 0" % (..., start, step)
StrideText(start, step) ==
    AND_ \o <<"(">> \o OFFSET \o <<" ", "-", " ">> \o FormatD(start)
         \o <<")", " ", "%", " ">> \o FormatD(step) \o <<" ", "=", " ", "0">>

\* Variant of the definition below: an index of no supported type gets no filter.
where_clause_lenient(indices) ==
    CASE indices = None -> Text(<<>>)
      [] indices.t = "int" ->
            Text(WHERE \o <<" ">> \o OFFSET \o <<" ", "=", " ">> \o FormatD(indices.n))
      [] indices.t = "slice" ->
            IF indices.start.t /= "int" \/ indices.stop.t /= "int"
            THEN Raise("TypeError", "NoneType")
            ELSE IF indices.step = None \/ indices.step = IntV(1)
            THEN Text(RangeText(indices.start.n, indices.stop.n))
            ELSE Text(RangeText(indices.start.n, indices.stop.n)
                        \o StrideText(indices.start.n, indices.step.n))
      [] indices.t = "list" -> Text(TrimOr(WHERE \o OrTerms(indices.items)))
      [] OTHER -> Text(<<>>)

\* The if/elif chain on the type of attr.index.  "%d" of None is a TypeError.
where_clause(indices) ==
    CASE indices = None -> Text(<<>>)
      [] indices.t = "int" ->
            Text(WHERE \o <<" ">> \o OFFSET \o <<" ", "=", " ">> \o FormatD(indices.n))
      [] indices.t = "slice" ->
            IF indices.start.t /= "int" \/ indices.stop.t /= "int"
            THEN Raise("TypeError", "NoneType")
            ELSE IF indices.step = None \/ indices.step = IntV(1)
            THEN Text(RangeText(indices.start.n, indices.stop.n))
            ELSE Text(RangeText(indices.start.n, indices.stop.n)
                        \o StrideText(indices.start.n, indices.step.n))
      [] indices.t = "list" -> Text(TrimOr(WHERE \o OrTerms(indices.items)))
      [] OTHER -> Raise("ValueError", indices.t)

\* query = "%s %s %s" % (match_clause, where_clause, return_clause)
QueryText(attr, where) ==
    MATCH_ITEM \o FormatS(attr.group_name) \o <<")">> \o <<" ">> \o where
        \o <<" ">> \o RETURN_ITEM \o FormatS(attr.attr_name)

\* The whole method: what is raised (text: the type the message names), and
\* the queries passed to self.connection.execute.  The rows that come back
\* are the connection's.
__get_tensor_by_query(attr) ==
    LET w == where_clause(attr.index)
    IN  IF w.raised /= ""
        THEN [raised |-> w.raised, text |-> w.text, sent |-> <<>>]
        ELSE [raised |-> "", text |-> "", sent |-> <<QueryText(attr, w.text)>>]

----------------------------------------------------------------------------
(* Objects *)

NoView == [t |-> "NoView"]
Free   == [t |-> "Free"]

Stores == {"store1", "store2"}
Slots  == 1..MaxViews
Cells  == 0..MaxViews   \* cell 0 only ever holds a copy that is not kept

FreeSlots(vw) == {j \in Slots : vw[j] = NoView}
FreeCells(h)  == {c \in Cells : h[c] = Free}
Min(S) == CHOOSE m \in S : \A n \in S : m <= n

\* The cell a newly created record object gets.
Fresh(h) == IF FreeCells(h) \ {0} /= {} THEN Min(FreeCells(h) \ {0}) ELSE 0

\* Objects no view refers to any more are gone.
Collect(vw, h) ==
    [c \in Cells |->
        IF \E j \in Slots : vw[j] /= NoView /\ vw[j]._attr = c THEN h[c] ELSE Free]

\* Variant of the definition below: the scan keeps the last UNSET field.
LastUnset(attr) ==
    IF \A i \in 1..Len(Fields) : attr[Fields[i]] /= UNSET THEN ""
    ELSE Fields[CHOOSE i \in 1..Len(Fields) :
                    /\ attr[Fields[i]] = UNSET
                    /\ \A k \in 1..Len(Fields) : attr[Fields[k]] = UNSET => k <= i]

\* The first field that is UNSET, "" when there is none (the for loop with break).
FirstUnset(attr) ==
    IF \A i \in 1..Len(Fields) : attr[Fields[i]] /= UNSET THEN ""
    ELSE Fields[Min({i \in 1..Len(Fields) : attr[Fields[i]] = UNSET})]

\* AttrView.__init__: the view keeps the store and the record it is given.
AttrView(store, attr) == [_store |-> store, _attr |-> attr]

\* Variant of the definition below: _attr is carried over like the rest.
copy_shared(h, self, c) == [view |-> self, heap |-> h]

\* AttrView.__copy__: every __dict__ entry is carried over, then _attr is
\* replaced by a copy of the record, a new object (cell c).
__copy__(h, self, c) ==
    [view |-> AttrView(self._store, c), heap |-> [h EXCEPT ![c] = h[self._attr]]]

\* setattr(self._attr, key, value)
setattr(h, view, key, value) == [h EXCEPT ![view._attr][key] = value]

\* Variant of the definition below: with no field UNSET the last field is
\* bound again and the lookup dispatched.
getattr_rebind(h, self, key, c) ==
    LET cp  == __copy__(h, self, c)
        out == cp.view
        attr_name == IF FirstUnset(cp.heap[out._attr]) = "" THEN Fields[Len(Fields)]
                     ELSE FirstUnset(cp.heap[out._attr])
        h2  == setattr(cp.heap, out, attr_name, key)
    IN  IF is_fully_specified(h2[out._attr])
        THEN [raised |-> "", ret |-> "get_tensor", key |-> attr_name,
              out |-> out, heap |-> h2, calls |-> <<h2[out._attr]>>]
        ELSE [raised |-> "", ret |-> "view", key |-> attr_name,
              out |-> out, heap |-> h2, calls |-> <<>>]

\* AttrView.__getattr__(key), which __getitem__(key) calls.
__getattr__(h, self, key, c) ==
    LET cp  == __copy__(h, self, c)
        out == cp.view
        attr_name == FirstUnset(cp.heap[out._attr])
        h2  == setattr(cp.heap, out, attr_name, key)
    IN  IF attr_name = ""
        THEN [raised |-> "AttributeError", ret |-> "", key |-> "",
              out |-> out, heap |-> cp.heap, calls |-> <<>>]
        ELSE IF is_fully_specified(h2[out._attr])
        THEN [raised |-> "", ret |-> "get_tensor", key |-> attr_name,
              out |-> out, heap |-> h2, calls |-> <<h2[out._attr]>>]
        ELSE [raised |-> "", ret |-> "view", key |-> attr_name,
              out |-> out, heap |-> h2, calls |-> <<>>]

\* Variant of the definition below: the record is rebuilt from the assignment.
setattr_rebuild(h, self, key, value) ==
    IF key \notin FieldSet
    THEN [raised |-> "ValueError", heap |-> h]
    ELSE [raised |-> "", heap |-> [h EXCEPT ![self._attr] =
                                      [RedisGraphTensorAttr EXCEPT ![key] = value]]]

\* AttrView.__setattr__(key, value), which __setitem__ calls.
__setattr__(h, self, key, value) ==
    IF key \notin FieldSet
    THEN [raised |-> "ValueError", heap |-> h]
    ELSE [raised |-> "", heap |-> setattr(h, self, key, value)]

\* AttrView.__call__()
__call__(h, self, c) ==
    LET cp  == __copy__(h, self, c)
        out == cp.view
        h2  == [cp.heap EXCEPT ![out._attr] = fully_specify(@)]
    IN  [raised |-> "", ret |-> "get_tensor", out |-> out, heap |-> h2,
         calls |-> <<h2[out._attr]>>]

----------------------------------------------------------------------------
(* Inputs *)

Ints    == (0..MaxInt) \cup {Big}
Members == {0, MaxInt, Big}
Tuples  == UNION {[1..n -> Members] : n \in 0..MaxLen}

\* Every index the callers pass: None, an integer, a range (its start may be
\* left out, as in [:stop]), a collection, and a value of no supported type.
Indices ==
    {None, Str(oops)}
        \cup {IntV(i) : i \in Ints}
        \cup {Slice(a, IntV(b), c) :
                a \in {None} \cup {IntV(i) : i \in 0..MaxInt},
                b \in 0..(MaxInt + 1),
                c \in {None} \cup {IntV(k) : k \in 1..MaxStep}}
        \cup {List(q) : q \in Tuples}

\* What the callers give each field: the values used with several views ...
Few  == [group_name |-> {Str(Person)},
         attr_name  |-> {Str(name)},
         index      |-> {None}]
\* ... and the values used with the store's query path.
Many == [group_name |-> {Str(Person)},
         attr_name  |-> {Str(name)},
         index      |-> Indices]

OneSlot == {Min(Slots)}

----------------------------------------------------------------------------
(* Connection: the wrapper, the redis client it opens, the graph handle *)

NoConn   == [t |-> "NoConn"]
GRAPH_ID == "pyg"
Wrappers == 1..MaxConns

\* The (host, port, db) a wrapper is constructed with.
Addresses == {[host |-> "redis1", port |-> "6379", db |-> "0"],
              [host |-> "redis2", port |-> "6380", db |-> "1"]}
Queries == {"MATCH (n) RETURN n", "MATCH (m) RETURN m"}

\* redis.Redis(host, port, db): a new client, named by its place in the log.
Redis(log, host, port, db) == Append(log, [host |-> host, port |-> port, db |-> db])

\* Graph(client, name)
Graph(client, graph_name) == [t |-> "Graph", client |-> client, name |-> graph_name]

\* Variant of the definition below: the client is opened on every call.
init_connection_always(self, g, log) ==
    LET log2 == Redis(log, self.host, self.port, self.db)
    IN  [self |-> [self EXCEPT !._connection = IntV(Len(log2))],
         graph |-> Graph(Len(log2), GRAPH_ID), opened |-> log2]

\* Connection.init_connection; g is the module-level graph, log the clients
\* opened so far.
init_connection(self, g, log) ==
    IF self._connection = None
    THEN LET log2 == Redis(log, self.host, self.port, self.db)
         IN  [self |-> [self EXCEPT !._connection = IntV(Len(log2))],
              graph |-> Graph(Len(log2), GRAPH_ID), opened |-> log2]
    ELSE [self |-> self, graph |-> g, opened |-> log]

\* Connection.__init__
Connection(host, port, db, g, log) ==
    init_connection([host |-> host, port |-> port, db |-> db, _connection |-> None],
                    g, log)

\* Connection.execute; the query runs on whatever the name graph holds after
\* init_connection.
execute(self, query, g, log) ==
    LET r == init_connection(self, g, log)
    IN  [self |-> r.self, graph |-> r.graph, opened |-> r.opened,
         on |-> r.graph, query |-> query]

----------------------------------------------------------------------------
(* Operations *)

Done(op, self, key, value, out, kept, calls, sent, raised, ret, text) ==
    [op |-> op, self |-> self, key |-> key, value |-> value, out |-> out,
     kept |-> kept, calls |-> calls, sent |-> sent,
     raised |-> raised, ret |-> ret, text |-> text]

Init ==
    /\ views = [j \in Slots |-> NoView]
    /\ heap = [c \in Cells |-> Free]
    /\ last = Done("", 0, "", None, Free, 0, <<>>, <<>>, "", "", "")
    /\ conns = [w \in Wrappers |-> NoConn]
    /\ graph = None
    /\ opened = <<>>
    /\ ran = <<>>

\* view = AttrView(store, attr), attr a new record or one the caller holds
\* already (the record of a view).  The callers work with one store at a
\* time: the views that exist together are views of the same store.
NewView(j, store, c) ==
    /\ views[j] = NoView
    /\ \A i \in Slots : views[i] /= NoView => views[i]._store = store
    /\ c /= 0
    /\ c = Fresh(heap) \/ heap[c] /= Free
    /\ views' = [views EXCEPT ![j] = AttrView(store, c)]
    /\ heap' = IF heap[c] = Free THEN [heap EXCEPT ![c] = RedisGraphTensorAttr]
               ELSE heap
    /\ last' = Done("AttrView", j, "", None, Free, j, <<>>, <<>>,
                    "", "view", "")
    /\ UNCHANGED cvars

\* The keys the callers pass: values meant for the field that is bound.
KeysFor(D, attr) ==
    IF FirstUnset(attr) = "" THEN D.group_name ELSE D[FirstUnset(attr)]

\* view.key, view[key]; a view that comes back is kept while a slot is free.
GetOrSet(S, D, j) ==
    /\ views[j] /= NoView
    /\ \E key \in KeysFor(D, heap[views[j]._attr]) :
       LET r == __getattr__(heap, views[j], key, Fresh(heap))
           kept == IF r.ret = "view" /\ FreeSlots(views) \cap S /= {}
                   THEN Min(FreeSlots(views) \cap S) ELSE 0
       IN  /\ views' = IF kept /= 0 THEN [views EXCEPT ![kept] = r.out] ELSE views
           /\ heap' = Collect(views', r.heap)
           /\ last' = Done("get_or_set", j, r.key, key,
                           r.heap[r.out._attr], kept, r.calls, <<>>,
                           r.raised, r.ret, "")
    /\ UNCHANGED cvars

\* view.key = value, view[key] = value
SetField(j, key, value) ==
    /\ views[j] /= NoView
    /\ LET r == __setattr__(heap, views[j], key, value)
       IN  /\ heap' = r.heap
           /\ views' = views
           /\ last' = Done("set", j, key, value, Free, 0, <<>>, <<>>, r.raised, "", "")
    /\ UNCHANGED cvars

\* view()
Resolve(j) ==
    /\ views[j] /= NoView
    /\ LET r == __call__(heap, views[j], Fresh(heap))
       IN  /\ views' = views
           /\ heap' = Collect(views', r.heap)
           /\ last' = Done("resolve", j, "", None,
                           r.heap[r.out._attr], 0, r.calls, <<>>,
                           r.raised, r.ret, "")
    /\ UNCHANGED cvars

\* copy.copy(view)
CopyView(S, j) ==
    /\ views[j] /= NoView
    /\ FreeSlots(views) \cap S /= {}
    /\ LET r == __copy__(heap, views[j], Fresh(heap))
           kept == Min(FreeSlots(views) \cap S)
       IN  /\ views' = [views EXCEPT ![kept] = r.view]
           /\ heap' = Collect(views', r.heap)
           /\ last' = Done("copy", j, "", None, Free, kept, <<>>, <<>>, "", "view", "")
    /\ UNCHANGED cvars

\* del view
Drop(j) ==
    /\ views[j] /= NoView
    /\ views' = [views EXCEPT ![j] = NoView]
    /\ heap' = Collect(views', heap)
    /\ last' = Done("del", j, "", None, Free, 0, <<>>, <<>>,
                    "", "", "")
    /\ UNCHANGED cvars

\* The store's query path on the record of a view that is fully specified
\* (get_tensor is only ever handed such a record).
Query(j) ==
    /\ views[j] /= NoView
    /\ is_fully_specified(heap[views[j]._attr])
    /\ LET r == __get_tensor_by_query(heap[views[j]._attr])
       IN  /\ UNCHANGED <<views, heap>>
           /\ last' = Done("query", j, "", None, heap[views[j]._attr], 0, <<>>, r.sent, r.raised,
                           IF r.raised = "" THEN "rows" ELSE "", r.text)
    /\ UNCHANGED cvars

Next ==
    \/ \E j \in Slots, store \in Stores, c \in Cells : NewView(j, store, c)
    \/ \E j \in Slots : GetOrSet(Slots, Few, j)
    \/ \E j \in Slots, key \in FieldSet : \E value \in Few[key] : SetField(j, key, value)
    \/ \E j \in Slots : SetField(j, "shape", None)
    \/ \E j \in Slots : Resolve(j)
    \/ \E j \in Slots : CopyView(Slots, j)
    \/ \E j \in Slots : Drop(j)
    \/ \E j \in Slots : Query(j)

Spec == Init /\ [][Next]_vars

\* One view over a store, with every index the query path can be given.
NextStore ==
    \/ \E j \in OneSlot, store \in Stores, c \in Cells : NewView(j, store, c)
    \/ \E j \in OneSlot : GetOrSet(OneSlot, Many, j)
    \/ \E j \in OneSlot, key \in FieldSet : \E value \in Many[key] : SetField(j, key, value)
    \/ \E j \in OneSlot : SetField(j, "shape", None)
    \/ \E j \in OneSlot : Resolve(j)
    \/ \E j \in OneSlot : Drop(j)
    \/ \E j \in OneSlot : Query(j)

SpecStore == Init /\ [][NextStore]_vars

\* w = Connection(host, port, db); the wrappers live as long as the process.
Connect(w, addr) ==
    /\ conns[w] = NoConn
    /\ \A v \in Wrappers : v < w => conns[v] /= NoConn
    /\ LET r == Connection(addr.host, addr.port, addr.db, graph, opened)
       IN  /\ conns' = [conns EXCEPT ![w] = r.self]
           /\ graph' = r.graph
           /\ opened' = r.opened
    /\ UNCHANGED <<ran, vvars>>

\* w.execute(query)
Execute(w, query) ==
    /\ conns[w] /= NoConn
    /\ Len(ran) < MaxCalls
    /\ LET r == execute(conns[w], query, graph, opened)
       IN  /\ conns' = [conns EXCEPT ![w] = r.self]
           /\ graph' = r.graph
           /\ opened' = r.opened
           /\ ran' = Append(ran, [self |-> w, on |-> r.on, query |-> r.query])
    /\ UNCHANGED vvars

\* Several wrappers, constructed and used in any order.
NextConn ==
    \/ \E w \in Wrappers, addr \in Addresses : Connect(w, addr)
    \/ \E w \in Wrappers, query \in Queries : Execute(w, query)

SpecConn == Init /\ [][NextConn]_vars

----------------------------------------------------------------------------
(* Reading a query as the database does: used to state what a filter selects *)

\* the position of the k-th occurrence of sep in s; 0 before the first and
\* Len(s) + 1 after the last
Occurrence(s, sep, k) ==
    LET P == {i \in 1..Len(s) : s[i] = sep}
    IN  IF k = 0 THEN 0
        ELSE IF k > Cardinality(P) THEN Len(s) + 1
        ELSE CHOOSE p \in P : Cardinality({q \in P : q < p}) = k - 1

\* the pieces of s between occurrences of sep (empty pieces included)
Split(s, sep) ==
    [k \in 1..(Cardinality({i \in 1..Len(s) : s[i] = sep}) + 1) |->
        SubSeq(s, Occurrence(s, sep, k - 1) + 1, Occurrence(s, sep, k) - 1)]

Words(s) == SelectSeq(Split(s, " "), LAMBDA w : w /= <<>>)

IsNat(w) == w /= <<>> /\ \A i \in 1..Len(w) : \E d \in 0..9 : Digits[d + 1] = w[i]

RECURSIVE NatOf(_)
NatOf(w) ==
    IF w = <<>> THEN 0
    ELSE 10 * NatOf(DropLast(w, 1)) + (CHOOSE d \in 0..9 : Digits[d + 1] = w[Len(w)])

IsInt(w) == IsNat(w) \/ (w /= <<>> /\ Head(w) = "-" /\ IsNat(Tail(w)))
IntOf(w) == IF Head(w) = "-" THEN 0 - NatOf(Tail(w)) ELSE NatOf(w)

\* offset(id(item)) OP n
IsCompare(a) ==
    /\ Len(a) = 3
    /\ a[1] = OFFSET
    /\ a[2] \in {<<"=">>, <<">", "=">>, <<"<">>}
    /\ IsInt(a[3])

\* (offset(id(item)) - n) % k = m
IsModulo(a) ==
    /\ Len(a) = 7
    /\ a[1] = <<"(">> \o OFFSET
    /\ a[2] = <<"-">>
    /\ a[3] /= <<>> /\ a[3][Len(a[3])] = ")" /\ IsInt(DropLast(a[3], 1))
    /\ a[4] = <<"%">>
    /\ IsNat(a[5]) /\ NatOf(a[5]) > 0
    /\ a[6] = <<"=">>
    /\ IsInt(a[7])

AtomHolds(a, x) ==
    IF IsCompare(a)
    THEN CASE a[2] = <<"=">>      -> x = IntOf(a[3])
           [] a[2] = <<">", "=">> -> x >= IntOf(a[3])
           [] a[2] = <<"<">>      -> x < IntOf(a[3])
    ELSE (x - IntOf(DropLast(a[3], 1))) % NatOf(a[5]) = IntOf(a[7])

\* a condition: atoms joined by AND, those joined by OR
Disjuncts(cond) == Split(cond, <<"O", "R">>)
Conjuncts(disj) == Split(disj, <<"A", "N", "D">>)

ConditionOK(cond) ==
    \A i \in 1..Len(Disjuncts(cond)) :
        \A k \in 1..Len(Conjuncts(Disjuncts(cond)[i])) :
            LET a == Conjuncts(Disjuncts(cond)[i])[k] IN IsCompare(a) \/ IsModulo(a)

ConditionHolds(cond, x) ==
    \E i \in 1..Len(Disjuncts(cond)) :
        \A k \in 1..Len(Conjuncts(Disjuncts(cond)[i])) :
            AtomHolds(Conjuncts(Disjuncts(cond)[i])[k], x)

\* MATCH (item:<label>) [WHERE <condition>] RETURN item.<property>
Shaped(q) ==
    LET w == Words(q)
    IN  /\ Len(w) >= 4
        /\ w[1] = <<"M", "A", "T", "C", "H">>
        /\ w[Len(w) - 1] = <<"R", "E", "T", "U", "R", "N">>

\* the words of the query between the pattern and RETURN
Filter(q) == SubSeq(Words(q), 3, Len(Words(q)) - 2)

WellFormed(q) ==
    /\ Shaped(q)
    /\ \/ Filter(q) = <<>>
       \/ Head(Filter(q)) = WHERE /\ ConditionOK(Tail(Filter(q)))

\* the query returns the item whose identifier is x
Returns(q, x) == Filter(q) = <<>> \/ ConditionHolds(Tail(Filter(q)), x)

\* The identifiers of the items in the database.
Items == 0..(Big + 1)

\* the index selects the item whose identifier is x
Selects(index, x) ==
    CASE index = None -> TRUE
      [] index.t = "int" -> x = index.n
      [] index.t = "slice" ->
            /\ index.start.n <= x /\ x < index.stop.n
            /\ index.step /= None => (x - index.start.n) % index.step.n = 0
      [] index.t = "list" -> \E i \in 1..Len(index.items) : index.items[i] = x

----------------------------------------------------------------------------
(* Properties of the view *)

\* the record seen through the view in slot j
Rec(j) == heap[views[j]._attr]

Unset(attr) == {key \in FieldSet : attr[key] = UNSET}

\* C1: a get_or_set on a view whose record has an unset field binds the given
\* value to exactly one field, the first one unset in the order group_name,
\* attr_name, index, and leaves every other field as it was.
C1_BindsFirstUnset ==
    [][(last'.op = "get_or_set" /\ Unset(Rec(last'.self)) /= {}) =>
          LET before == Rec(last'.self)
              first  == IF before.group_name = UNSET THEN "group_name"
                        ELSE IF before.attr_name = UNSET THEN "attr_name"
                        ELSE "index"
          IN  /\ last'.raised = ""
              /\ last'.key = first
              /\ last'.out[first] = last'.value
              /\ \A key \in FieldSet \ {first} : last'.out[key] = before[key]
      ]_vars

\* A get_or_set bound attr_name while index stayed unset.
C1_Witness ==
    /\ last.op = "get_or_set"
    /\ last.key = "attr_name"
    /\ last.out.group_name /= UNSET
    /\ last.out.index = UNSET

\* C2: a get_or_set that binds a field makes no store call and returns a view
\* when a field is still unset after the binding; when none is (None counts
\* as bound) it makes exactly one get_tensor call, with the complete record,
\* and returns that call's result.
C2_DispatchWhenComplete ==
    (last.op = "get_or_set" /\ last.raised = "") =>
        IF Unset(last.out) /= {}
        THEN last.calls = <<>> /\ last.ret = "view"
        ELSE last.calls = <<last.out>> /\ last.ret = "get_tensor"

\* A get_or_set completed a record by binding index to None.
C2_Witness ==
    /\ last.op = "get_or_set"
    /\ last.key = "index"
    /\ last.value = None
    /\ last.ret = "get_tensor"
    /\ last.out.group_name = Str(Person)

\* C3: a get_or_set on a view whose record has no unset field raises
\* (AttributeError), makes no get_tensor call and leaves the record unchanged.
C3_RaisesWhenAllBound ==
    [][(last'.op = "get_or_set" /\ Unset(Rec(last'.self)) = {}) =>
          /\ last'.raised = "AttributeError"
          /\ last'.calls = <<>>
          /\ last'.ret = ""
          /\ views' = views
          /\ heap'[views[last'.self]._attr] = Rec(last'.self)
      ]_vars

\* A get_or_set was refused on a record whose index is bound to None.
C3_Witness ==
    /\ last.op = "get_or_set"
    /\ last.raised = "AttributeError"
    /\ Rec(last.self).index = None
    /\ Rec(last.self).group_name = Str(Person)

\* C4: resolve() on any view makes exactly one get_tensor call, with a record
\* in which every unset field is None and every bound field keeps its value,
\* returns that call's result, and leaves the view's own record unchanged.
C4_ResolveDefaultsToNone ==
    [][last'.op = "resolve" =>
          LET before == Rec(last'.self)
          IN  /\ last'.calls =
                    <<[key \in FieldSet |->
                        IF before[key] = UNSET THEN None ELSE before[key]]>>
              /\ last'.ret = "get_tensor"
              /\ last'.raised = ""
              /\ views' = views
              /\ heap'[views[last'.self]._attr] = before
      ]_vars

\* resolve() was called on a view with a bound and an unset field.
C4_Witness ==
    /\ last.op = "resolve"
    /\ Rec(last.self).group_name = Str(Person)
    /\ Rec(last.self).index = UNSET
    /\ last.calls[1].index = None

\* C5: no field of a record that is bound (to None or to a value) is ever
\* unset again, whatever is done through the views.
C5_NeverUnsetAgain ==
    [][\A c \in Cells : \A key \in FieldSet :
          (heap[c] /= Free /\ heap'[c] /= Free /\ heap[c][key] /= UNSET)
              => heap'[c][key] /= UNSET
      ]_vars

\* A field was assigned on a record that has another field bound.
C5_Witness ==
    /\ last.op = "set"
    /\ last.raised = ""
    /\ \E key \in FieldSet \ {last.key} : Rec(last.self)[key] /= UNSET

Present(vw, j) == vw[j] /= NoView
Shared(vw, i, j) == Present(vw, i) /\ Present(vw, j) /\ vw[i]._attr = vw[j]._attr

NamedPerson == [group_name |-> Str(Person), attr_name |-> UNSET, index |-> UNSET]
PersonName  == [group_name |-> Str(Person), attr_name |-> Str(name), index |-> UNSET]

\* view["Person"] on a view with every field unset has just returned the view
\* in slot j.
IsViewPerson(j) ==
    /\ last.op = "get_or_set"
    /\ last.key = "group_name"
    /\ last.value = Str(Person)
    /\ last.kept = j
    /\ Rec(j) = NamedPerson

\* C7 as stated: from a view with every field unset, view["Person"]["name"]
\* yields a get_tensor call with {group_name: "Person", attr_name: "name",
\* index: None}.
C7_ChainMaterializes ==
    [][(last'.op = "get_or_set" /\ last'.value = Str(name) /\ IsViewPerson(last'.self)) =>
          last'.calls = <<fully_specify(PersonName)>>
      ]_vars

\* C7 as amended: view["Person"]["name"] makes no get_tensor call and yields a
\* view whose record is {group_name: "Person", attr_name: "name", index
\* unset}; the get_tensor call with index None is made when that view is
\* resolved, view["Person"]["name"]().
C7_ChainYieldsView ==
    [][/\ (last'.op = "get_or_set" /\ last'.value = Str(name) /\ IsViewPerson(last'.self)) =>
             /\ last'.calls = <<>>
             /\ last'.ret = "view"
             /\ last'.out = PersonName
       /\ (last'.op = "resolve" /\ Rec(last'.self) = PersonName) =>
             /\ last'.calls = <<[group_name |-> Str(Person), attr_name |-> Str(name),
                                 index |-> None]>>
             /\ last'.ret = "get_tensor"
      ]_vars

\* The second access of the chain has returned a view.
C7_Witness ==
    /\ last.op = "get_or_set"
    /\ last.key = "attr_name"
    /\ last.value = Str(name)
    /\ last.out = PersonName
    /\ last.ret = "view"
    /\ Present(views, last.self) /\ Rec(last.self) = NamedPerson

----------------------------------------------------------------------------
(* Properties of the query path *)

\* the indices of the shapes the filter is specified for: an integer, a range
\* with integer bounds, a collection with a member, and None
Supported(index) ==
    \/ index = None
    \/ index.t = "int"
    \/ index.t = "slice" /\ index.start.t = "int" /\ index.stop.t = "int"
    \/ index.t = "list" /\ index.items /= <<>>

C9_EmptyCollectionMatchesNothing ==
    (last.op = "query" /\ last.out.index = List(<<>>)) =>
        /\ Len(last.sent) = 1
        /\ WellFormed(last.sent[1])
        /\ \A x \in Items : ~Returns(last.sent[1], x)

----------------------------------------------------------------------------
(* Connection wrappers *)

Made(cs, w) == cs[w] /= NoConn
Calls(w) == {i \in 1..Len(ran) : ran[i].self = w}
Used == {w \in Wrappers : Calls(w) /= {}}

C12_ExecuteOnOwnHandle ==
    \A i \in 1..Len(ran) :
        /\ ran[i].on /= None
        /\ IntV(ran[i].on.client) = conns[ran[i].self]._connection

====
